---- MODULE Spec2Model ----
(***************************************************************************)
(* Model of SourceContentReader (src/src/stuff.rs): classification of a    *)
(* source string, resolution to an on-disk location (with the temporary    *)
(* clone directory), and reading a file with the bundled fallback.         *)
(*                                                                         *)
(* Strings are sequences of tokens ("https", "://", "github.com", "/",     *)
(* "owner", ".git"), so that URL parsing and the path tests of             *)
(* validate_git_url are computed, not assumed.                             *)
(***************************************************************************)
EXTENDS Integers, Sequences, FiniteSets, TLC

VARIABLES path, env, bundle, tmpDisk, scr, pc, clones, result

vars == <<path, env, bundle, tmpDisk, scr, pc, clones, result>>

(* ---------------------------- bounds ----------------------------------- *)

\* longest tail (in tokens) that follows the host of a URL, or that makes up
\* a plain path
MaxPathLen == 2

(* ---------------------------- strings ---------------------------------- *)

Schemes == {"https", "http", "ssh"}

\* schemes for which the url crate normalises an empty path to "/"
SpecialSchemes == {"https", "http"}

Hosts == {"github.com", "gitlab.com", "bitbucket.org", "example.com"}

PathTokens == {"/", "owner", ".git"}

Tails == UNION {[1..n -> PathTokens] : n \in 0..MaxPathLen}

UrlSources == {<<sc, "://", h>> \o t : sc \in Schemes, h \in Hosts, t \in Tails}

PathSources == Tails \ {<<>>}

AllSources == UrlSources \cup PathSources

SampleSources ==
    { <<"https", "://", "github.com", "/", "owner">>,
      <<"http", "://", "github.com", "/", "owner">>,
      <<"https", "://", "example.com", "/", "owner">>,
      <<"/", "owner">>,
      <<"owner", "/">> }

Filenames == {"devenv.nix", ".envrc"}

\* path of the directory tempfile::tempdir() creates
TmpPath == <<"/", "tmp", "/", ".tmpXXXXXX">>

None == <<>>

Some(x) == <<x>>

(* ---------------------------- Url::parse ------------------------------- *)

\* index of the first "/" token at or after position i, 0 when there is none
RECURSIVE FirstSlash(_, _)
FirstSlash(s, i) ==
    IF i > Len(s) THEN 0
    ELSE IF s[i] = "/" THEN i
    ELSE FirstSlash(s, i + 1)

\* Url::parse: scheme "://" authority path.  The authority runs up to the
\* first "/"; a special scheme with an empty path gets the path "/".
UrlParse(s) ==
    IF Len(s) >= 3 /\ s[1] \in Schemes /\ s[2] = "://" /\ s[3] # "/"
    THEN LET fs == FirstSlash(s, 4)
             hostEnd == IF fs = 0 THEN Len(s) ELSE fs - 1
         IN [ok |-> TRUE,
             scheme |-> s[1],
             host |-> IF hostEnd = 3 THEN s[3] ELSE "other",
             path |-> IF fs = 0
                      THEN (IF s[1] \in SpecialSchemes THEN <<"/">> ELSE <<>>)
                      ELSE SubSeq(s, fs, Len(s))]
    ELSE [ok |-> FALSE, scheme |-> "", host |-> "", path |-> <<>>]

EndsWithGit(p) == Len(p) > 0 /\ p[Len(p)] = ".git"

ContainsSlash(p) == \E i \in 1..Len(p) : p[i] = "/"

(* ---------------------------- the disk --------------------------------- *)

\* Path::exists / Path::is_dir of the source path
SrcExists == env.srcKind # "absent"

SrcIsDir == env.srcKind = "dir"

\* path.join(".git").exists()
SrcDotGitExists == env.srcKind = "dir" /\ env.dotGit

\* state of loc/f on disk: "absent", "ok" (readable), "unreadable" (stat
\* works, open or read fails), "noaccess" (the file is there but stat fails,
\* e.g. the directory is not searchable)
FileState(loc, f) ==
    IF loc = TmpPath
    THEN (IF tmpDisk = None THEN "absent" ELSE tmpDisk[1][f])
    ELSE IF loc = path /\ SrcIsDir THEN env.srcFiles[f]
    ELSE "absent"

FileData(loc, f) == IF loc = TmpPath THEN <<"remote", f>> ELSE <<"local", f>>

\* Path::exists is fs::metadata(p).is_ok(): false when the entry is missing
\* and also when stat itself is refused
FileExists(loc, f) == FileState(loc, f) \in {"ok", "unreadable"}

(* ---------------------------- results ---------------------------------- *)

Ok(v) == [tag |-> "Ok", val |-> v]

IoError == [tag |-> "IoError", val |-> <<>>]

\* a panic (Option::unwrap on None), with the place that raised it
Panic(where) == [tag |-> "Panic", val |-> <<where>>]

(* ---------------------------- SourceContentReader ---------------------- *)

is_local_directory(s) == s.path = path /\ SrcExists /\ SrcIsDir

\* validate_git_url without the scheme test
validate_git_url_any_scheme(url) ==
    /\ url.host \in {"github.com", "gitlab.com", "bitbucket.org"}
    /\ (EndsWithGit(url.path) \/ ContainsSlash(url.path))

validate_git_url(url) ==
    /\ url.scheme = "https"
    /\ url.host \in {"github.com", "gitlab.com", "bitbucket.org"}
    /\ (EndsWithGit(url.path) \/ ContainsSlash(url.path))

is_git_repository(s) ==
    LET url == UrlParse(s.path)
    IN IF url.ok THEN validate_git_url(url)
       ELSE SrcExists /\ SrcDotGitExists

\* setup_git_repository that clones even when the source is a local directory
setup_git_repository_always_clone(s) ==
    IF ~env.tmpOk
    THEN [ok |-> FALSE, scr |-> s, disk |-> None, clones |-> 0]
    ELSE IF env.cloneOk
    THEN [ok |-> TRUE,
          scr |-> [s EXCEPT !.location = Some(TmpPath), !.temp_dir = Some(TmpPath)],
          disk |-> Some(env.remoteFiles),
          clones |-> 1]
    ELSE [ok |-> FALSE, scr |-> s, disk |-> None, clones |-> 1]

\* setup_git_repository that ignores the clone's error instead of returning it
setup_git_repository_ignore_error(s) ==
    IF ~env.tmpOk
    THEN [ok |-> FALSE, scr |-> s, disk |-> None, clones |-> 0]
    ELSE IF is_local_directory(s)
    THEN [ok |-> TRUE,
          scr |-> [s EXCEPT !.location = Some(s.path), !.temp_dir = Some(TmpPath)],
          disk |-> Some([f \in Filenames |-> "absent"]),
          clones |-> 0]
    ELSE [ok |-> TRUE,
          scr |-> [s EXCEPT !.location = Some(TmpPath), !.temp_dir = Some(TmpPath)],
          disk |-> Some(env.remoteFiles),
          clones |-> 1]

\* outcome of setup_git_repository: the updated instance, the temporary
\* directory left on disk and the number of clone operations started
setup_git_repository(s) ==
    IF ~env.tmpOk
    THEN [ok |-> FALSE, scr |-> s, disk |-> None, clones |-> 0]
    ELSE IF is_local_directory(s)
    THEN [ok |-> TRUE,
          scr |-> [s EXCEPT !.location = Some(s.path), !.temp_dir = Some(TmpPath)],
          disk |-> Some([f \in Filenames |-> "absent"]),
          clones |-> 0]
    ELSE IF env.cloneOk
    THEN [ok |-> TRUE,
          scr |-> [s EXCEPT !.location = Some(TmpPath), !.temp_dir = Some(TmpPath)],
          disk |-> Some(env.remoteFiles),
          clones |-> 1]
    ELSE [ok |-> FALSE, scr |-> s, disk |-> None, clones |-> 1]

\* the local-directory test of new without the assignment to location
classify_local_no_location(s) ==
    IF is_local_directory(s)
    THEN [s EXCEPT !.source_type = "LocalDirectory"]
    ELSE s

\* the instance after the local-directory test of new
classify_local(s) ==
    IF is_local_directory(s)
    THEN [s EXCEPT !.location = Some(s.path), !.source_type = "LocalDirectory"]
    ELSE s

read_fallback(s, f) ==
    IF bundle[f] THEN Ok(<<"bundle", f>>) ELSE Panic("get_file.unwrap")

\* read_local_file that consults the bundle before the resolved location
read_local_file_bundle_first(s, f) ==
    IF s.location = None THEN Panic("location.unwrap")
    ELSE LET loc == s.location[1]
         IN IF bundle[f] \/ ~FileExists(loc, f) THEN read_fallback(s, f)
            ELSE IF FileState(loc, f) = "ok" THEN Ok(FileData(loc, f))
            ELSE IoError

read_local_file(s, f) ==
    IF s.location = None THEN Panic("location.unwrap")
    ELSE LET loc == s.location[1]
         IN IF ~FileExists(loc, f) THEN read_fallback(s, f)
            ELSE IF FileState(loc, f) = "ok" THEN Ok(FileData(loc, f))
            ELSE IoError

read_file_contents(s, f) ==
    IF s.source_type \in {"LocalDirectory", "GitRepository"}
    THEN read_local_file(s, f)
    ELSE read_fallback(s, f)

\* a drop that leaves the temporary directory on disk (TempDir::into_path)
drop_temp_dir_keep(s) == tmpDisk

\* Drop of the instance: TempDir's destructor removes the directory tree
drop_temp_dir(s) == None

(* ---------------------------- state machine ---------------------------- *)

\* the last read_file_contents call: its filename, the location it used and
\* the state of the file there when it was made, and what it returned
NoResult == [file |-> "", loc |-> None, st |-> "", tag |-> "", val |-> <<>>]

FileStates == {"absent", "ok", "unreadable", "noaccess"}

Envs ==
    {e \in [srcKind : {"absent", "file", "dir"},
            dotGit : BOOLEAN,
            srcFiles : [Filenames -> FileStates],
            tmpOk : BOOLEAN,
            cloneOk : BOOLEAN,
            remoteFiles : [Filenames -> {"absent", "ok"}]] :
        /\ e.srcKind # "dir" =>
             /\ ~e.dotGit
             /\ \A f \in Filenames : e.srcFiles[f] = "absent"
        /\ ~e.cloneOk => \A f \in Filenames : e.remoteFiles[f] = "absent"}

\* environments in which only the kind of the source path varies
PlainEnvs ==
    {e \in Envs :
        /\ e.tmpOk
        /\ \A f \in Filenames : e.srcFiles[f] \in {"absent", "ok"}
        /\ \A f \in Filenames : e.remoteFiles[f] = "absent"}

Init ==
    /\ \/ path \in SampleSources /\ env \in Envs
       \/ path \in AllSources /\ env \in PlainEnvs
    /\ bundle \in [Filenames -> BOOLEAN]
    /\ tmpDisk = None
    /\ scr = None
    /\ pc = "start"
    /\ clones = 0
    /\ result = NoResult

New ==
    /\ pc = "start"
    /\ LET s0 == [path |-> path, location |-> None,
                  source_type |-> "Unknown", temp_dir |-> None]
           s1 == classify_local(s0)
       IN IF is_git_repository(s1)
          THEN LET r == setup_git_repository(s1)
               IN /\ clones' = clones + r.clones
                  /\ tmpDisk' = r.disk
                  /\ IF r.ok
                     THEN /\ scr' = Some([r.scr EXCEPT !.source_type = "GitRepository"])
                          /\ pc' = "constructed"
                     ELSE /\ scr' = None
                          /\ pc' = "failed"
          ELSE /\ scr' = Some(s1)
               /\ pc' = "constructed"
               /\ UNCHANGED <<clones, tmpDisk>>
    /\ UNCHANGED <<path, env, bundle, result>>

Read(f) ==
    /\ pc = "constructed"
    /\ LET s == scr[1]
           r == read_file_contents(s, f)
       IN /\ result' = [file |-> f,
                        loc |-> s.location,
                        st |-> IF s.location = None THEN "nolocation"
                               ELSE FileState(s.location[1], f),
                        tag |-> r.tag, val |-> r.val]
          /\ IF r.tag = "Panic"
             THEN \* the panic unwinds through the owner, dropping the instance
                  /\ pc' = "panicked"
                  /\ scr' = None
                  /\ tmpDisk' = drop_temp_dir(s)
             ELSE UNCHANGED <<pc, scr, tmpDisk>>
    /\ UNCHANGED <<path, env, bundle, clones>>

Drop ==
    /\ pc = "constructed"
    /\ pc' = "dropped"
    /\ scr' = None
    /\ tmpDisk' = drop_temp_dir(scr[1])
    /\ UNCHANGED <<path, env, bundle, clones, result>>

Next ==
    \/ New
    \/ \E f \in Filenames : Read(f)
    \/ Drop

Spec == Init /\ [][Next]_vars

\* the constructor runs to completion and an owned value is dropped when its
\* owner's scope ends
FairSpec == Spec /\ WF_vars(New) /\ WF_vars(Drop)


(* ---------------------------- claims ----------------------------------- *)

Constructed == pc = "constructed"

HasRead == result.file # ""

\* the source is a URL that names a remote git repository: scheme https, an
\* allow-listed host, a path that ends with .git or contains "/"
QualifiesAsGitUrl ==
    LET url == UrlParse(path)
    IN /\ url.ok
       /\ url.scheme = "https"
       /\ url.host \in {"github.com", "gitlab.com", "bitbucket.org"}
       /\ (EndsWithGit(url.path) \/ ContainsSlash(url.path))

\* C1: an instance constructed from an existing local directory has kind
\* LocalDirectory, also when the directory contains a .git entry.
C1_LocalDirectoryKept ==
    (Constructed /\ SrcIsDir) => scr[1].source_type = "LocalDirectory"

\* C2: a read of a file that is neither at the resolved location nor in the
\* bundle returns a FileNotFound error value, without aborting the caller.
C2_FileNotFoundReturned ==
    (HasRead /\ result.st \in {"absent", "nolocation"} /\ ~bundle[result.file])
        => (result.tag = "FileNotFound" /\ pc # "panicked")

C4_TempDirLifetime ==
    /\ [](/\ pc \in {"start", "failed", "dropped", "panicked"} => tmpDisk = None
          /\ (Constructed /\ scr[1].temp_dir # None) => tmpDisk # None
          /\ scr = None => tmpDisk = None)
    /\ (tmpDisk # None) ~> (tmpDisk = None)

C4_Witness == pc = "dropped" /\ clones = 1 /\ env.cloneOk /\ tmpDisk = None

\* C5: an instance built from a remote git URL has performed exactly one
\* clone, an instance built from a local directory or an Unknown source
\* none, and no step after construction changes the number of clones.
C5_OneCloneAtConstruction ==
    /\ [](pc \in {"constructed", "dropped", "panicked"} =>
            clones = IF QualifiesAsGitUrl /\ ~SrcIsDir THEN 1 ELSE 0)
    /\ [][pc # "start" => clones' = clones]_vars

C5_Witness == Constructed /\ HasRead /\ clones = 1

\* C6: for a source that parses as a URL and is not a local directory, the
\* kind is GitRepository exactly when the URL has scheme https, an
\* allow-listed host and a path ending with .git or containing "/", and
\* Unknown otherwise.
C6_UrlClassification ==
    (Constructed /\ UrlParse(path).ok /\ ~SrcIsDir) =>
        /\ scr[1].source_type = "GitRepository" <=> QualifiesAsGitUrl
        /\ scr[1].source_type = "Unknown" <=> ~QualifiesAsGitUrl

C6_Witness ==
    /\ Constructed
    /\ ~SrcIsDir
    /\ UrlParse(path).scheme = "https"
    /\ scr[1].source_type = "GitRepository"

\* C7: when the clone fails, construction yields an error and no instance,
\* and the clone was attempted exactly once.
C7_CloneFailureFatal ==
    (clones > 0 /\ ~env.cloneOk) => (pc = "failed" /\ scr = None /\ clones = 1)

C7_Witness == pc = "failed" /\ clones = 1 /\ ~env.cloneOk

\* C8: a read of a file that exists at the resolved location but cannot be
\* opened or read returns an I/O error, never the bundle's contents.
C8_IoErrorNotFallback ==
    (HasRead /\ result.st \in {"unreadable", "noaccess"}) => result.tag = "IoError"

\* C9: a constructed instance owns a temporary directory only when a remote
\* clone was performed during its construction.
C9_TempDirOnlyForClone ==
    (Constructed /\ scr[1].temp_dir # None) => clones = 1

\* C10: in a constructed instance the location is absent exactly when the
\* kind is Unknown, is the source path when the kind is LocalDirectory, is
\* the source path or the temporary directory when the kind is
\* GitRepository; no read reaches location.unwrap() on an absent location,
\* and reads leave the instance unchanged.
C10_LocationMatchesKind ==
    /\ [](Constructed =>
            /\ scr[1].location = None <=> scr[1].source_type = "Unknown"
            /\ scr[1].source_type = "LocalDirectory" => scr[1].location = Some(path)
            /\ scr[1].source_type = "GitRepository" =>
                 scr[1].location \in {Some(path), Some(TmpPath)})
    /\ [](result.val # <<"location.unwrap">>)
    /\ [][(Constructed /\ pc' = "constructed") => scr' = scr]_vars

C10_Witness ==
    /\ Constructed
    /\ HasRead
    /\ scr[1].source_type = "LocalDirectory"
    /\ scr[1].location = Some(path)

====
